---- MODULE Spec2Model ----
(***************************************************************************)
(* Model of hfst/evaluate_correction.py of cor-asv-fst: the alignment      *)
(* based edit distance with umlaut collapsing (get_adjusted_distance), the *)
(* precision/recall classifier (get_precision_recall) and the batch        *)
(* evaluation loop (main).                                                 *)
(*                                                                         *)
(* A text line is a sequence of symbols, a symbol is a TLA+ string.  The   *)
(* letters with diaeresis and the combining e are written by code point.   *)
(* Python indices are 0-based: At(s, i) is s[i].                           *)
(***************************************************************************)
EXTENDS Integers, Sequences, FiniteSets, TLC

VARIABLES dist, pr, mn

vars == <<dist, pr, mn>>

\* ------------------------------------------------------------------ bounds

\* longest generated line handed to get_adjusted_distance
MaxLen == 3

\* longest generated line handed to get_precision_recall
MaxLenPR == 3

\* longest generated file content read by main, before strip()
MaxRawLen == 1

\* most files main reads per suffix
MaxLines == 2

\* ----------------------------------------------------------------- symbols

\* alignment.sequence.GAP_ELEMENT = 0: a falsy value equal to no character.
\* The empty string is the falsy value of the symbols' own type.
GAP_ELEMENT == ""

a_umlaut == "U+00E4"

o_umlaut == "U+00F6"

u_umlaut == "U+00FC"

\* u"ͤ", the diacritical combining e
combining_e == "U+0364"

\* umlauts = {ä: a, ö: o, ü: u}
umlauts == (a_umlaut :> "a") @@ (o_umlaut :> "o") @@ (u_umlaut :> "u")

At(s, i) == s[i + 1]

Max(x, y) == IF x >= y THEN x ELSE y

Min(x, y) == IF x <= y THEN x ELSE y

\* all lines over alphabet A of length at most n
Lines(A, n) == UNION {[1..k -> A] : k \in 0..n}

\* str.count(sym)
RECURSIVE count(_, _)
count(l, sym) ==
    IF l = <<>> THEN 0
    ELSE (IF Head(l) = sym THEN 1 ELSE 0) + count(Tail(l), sym)

\* ----------------------------------------------------------------- aligner
\* SimpleScoring(2, -1) and StrictGlobalSequenceAligner(scoring, -2)

matchScore == 2

mismatchScore == -1

gapScore == -2

scoring(x, y) == IF x = y THEN matchScore ELSE mismatchScore

\* one row of the score matrix, from the row above it (prev); row[j + 1] is
\* the cell of column j
RECURSIVE matrixRow(_, _, _, _, _)
matrixRow(first, second, i, prev, row) ==
    IF Len(row) = Len(second) + 1 THEN row
    ELSE LET j  == Len(row)
             ab == At(prev, j - 1) + scoring(first[i], second[j])
             ga == At(row, j - 1) + gapScore
             gb == At(prev, j) + gapScore
         IN  matrixRow(first, second, i, prev,
                       Append(row, Max(ab, Max(ga, gb))))

RECURSIVE matrixRows(_, _, _)
matrixRows(first, second, f) ==
    IF Len(f) = Len(first) + 1 THEN f
    ELSE LET i == Len(f)
         IN  matrixRows(first, second,
                 Append(f, matrixRow(first, second, i, At(f, i - 1),
                                     <<At(At(f, i - 1), 0) + gapScore>>)))

\* the global alignment score matrix: f[i + 1][j + 1] is the best score of
\* aligning the first i symbols of first with the first j symbols of second;
\* the borders are runs of gaps (strict global alignment)
computeAlignmentMatrix(first, second) ==
    matrixRows(first, second,
               <<[j \in 1..(Len(second) + 1) |-> (j - 1) * gapScore]>>)

Cell(f, i, j) == At(At(f, i), j)

\* the backtrace moves that reach the score of cell (i, j)
tiedMoves(first, second, f, i, j) ==
    {mv \in {"diag", "gapSecond", "gapFirst"} :
        \/ /\ mv = "diag"
           /\ i > 0 /\ j > 0
           /\ Cell(f, i, j) = Cell(f, i - 1, j - 1) + scoring(first[i], second[j])
        \/ /\ mv = "gapSecond"
           /\ i > 0
           /\ Cell(f, i, j) = Cell(f, i - 1, j) + gapScore
        \/ /\ mv = "gapFirst"
           /\ j > 0
           /\ Cell(f, i, j) = Cell(f, i, j - 1) + gapScore}

\* the first move of preference order `order` that is tied
RECURSIVE preferred(_, _)
preferred(order, tied) ==
    IF order = <<>> THEN {}
    ELSE IF Head(order) \in tied THEN {Head(order)}
    ELSE preferred(Tail(order), tied)

\* the moves a backtrace follows: every tied move (order = <<>>), or the one
\* a fixed preference order selects
followed(order, tied) == IF order = <<>> THEN tied ELSE preferred(order, tied)

push(al, x, y) == [first |-> Append(al.first, x), second |-> Append(al.second, y)]

\* the alignments of the first i symbols of first with the first j symbols
\* of second that the backtrace from cell (i, j) yields
RECURSIVE backtraceFrom(_, _, _, _, _, _)
backtraceFrom(first, second, f, i, j, order) ==
    IF i = 0 /\ j = 0 THEN {[first |-> <<>>, second |-> <<>>]}
    ELSE LET mvs == followed(order, tiedMoves(first, second, f, i, j))
         IN  (IF "diag" \in mvs
              THEN {push(al, first[i], second[j]) :
                      al \in backtraceFrom(first, second, f, i - 1, j - 1, order)}
              ELSE {})
             \cup
             (IF "gapSecond" \in mvs
              THEN {push(al, first[i], GAP_ELEMENT) :
                      al \in backtraceFrom(first, second, f, i - 1, j, order)}
              ELSE {})
             \cup
             (IF "gapFirst" \in mvs
              THEN {push(al, GAP_ELEMENT, second[j]) :
                      al \in backtraceFrom(first, second, f, i, j - 1, order)}
              ELSE {})

\* aligner.align(first, second, backtrace=True): the alignments of maximal
\* score.  Which of them comes first in the returned list is decided by the
\* aligner's backtrace order, so alignments[0] is any one of them.
align(first, second) ==
    backtraceFrom(first, second, computeAlignmentMatrix(first, second),
                  Len(first), Len(second), <<>>)

\* the single alignment a backtrace with a fixed preference order selects
alignPreferring(first, second, order) ==
    CHOOSE al \in backtraceFrom(first, second,
                                computeAlignmentMatrix(first, second),
                                Len(first), Len(second), order) : TRUE

\* one row of the edit distance matrix from the row above it
RECURSIVE editRow(_, _, _, _, _)
editRow(s1, s2, i, prev, row) ==
    IF Len(row) = Len(s2) + 1 THEN row
    ELSE LET j == Len(row)
             sub == At(prev, j - 1) + (IF s1[i] = s2[j] THEN 0 ELSE 1)
         IN  editRow(s1, s2, i, prev,
                     Append(row, Min(sub, Min(At(row, j - 1) + 1, At(prev, j) + 1))))

RECURSIVE editRows(_, _, _, _)
editRows(s1, s2, i, prev) ==
    IF i > Len(s1) THEN At(prev, Len(s2))
    ELSE editRows(s1, s2, i + 1, editRow(s1, s2, i, prev, <<i>>))

\* editdistance.eval(s1, s2): the Levenshtein distance
editdistance(s1, s2) == editRows(s1, s2, 1, [j \in 1..(Len(s2) + 1) |-> j - 1])

emptyAlignment == [first |-> <<>>, second |-> <<>>]

\* ------------------------------------------------------------------- state
\* dist: the locals of a call of get_adjusted_distance; pr: the locals of a
\* call of get_precision_recall; mn: the locals of main.  pc is the place
\* in the function, or the exception that ended it.

\* the quotient num / den of a true division, kept as its two operands
Ratio(num, den) == [num |-> num, den |-> den]

DistIdle ==
    [l1 |-> <<>>, l2 |-> <<>>, a |-> emptyAlignment, k |-> 0, d |-> 0,
     source_umlaut |-> FALSE, target_umlaut |-> FALSE, pc |-> "idle",
     ret |-> <<>>]

PRIdle ==
    [ocr |-> <<>>, cor |-> <<>>, gt |-> <<>>, a |-> emptyAlignment,
     b |-> emptyAlignment, i |-> 0, j |-> 0, FP |-> 0, TP |-> 0, FN |-> 0,
     TN |-> 0, ocr_sym |-> <<>>, cor_sym |-> <<>>, gt_sym |-> GAP_ELEMENT,
     pc |-> "idle", ret |-> <<>>]

MainIdle ==
    [metric |-> "", silent |-> FALSE, TP |-> 0, TN |-> 0, FP |-> 0, FN |-> 0,
     edits_ocr |-> 0, edits_cor |-> 0, len_ocr |-> 0, len_cor |-> 0,
     lines |-> 0, gt_line |-> <<>>, ocr_line |-> <<>>, cor_line |-> <<>>,
     edits_ocr_line |-> 0, len_ocr_line |-> 0, edits_cor_line |-> 0,
     len_cor_line |-> 0, printed |-> <<>>, pc |-> "idle"]

\* ------------------------------------------------- get_adjusted_distance

DistAlphabet == {"a", "u", u_umlaut, combining_e}

muessen_combining == <<"m", "u", combining_e, "s", "s", "e", "n">>

muessen == <<"m", u_umlaut, "s", "s", "e", "n">>

helllo == <<"h", "e", "l", "l", "l", "o">>

hello == <<"h", "e", "l", "l", "o">>

\* the pairs (l1, l2) get_adjusted_distance is called with
DistInputs ==
    (Lines(DistAlphabet, MaxLen) \X Lines(DistAlphabet, MaxLen))
    \cup {<<muessen_combining, muessen>>, <<muessen, muessen_combining>>,
          <<helllo, hello>>, <<hello, hello>>, <<muessen, muessen>>}

\* entry of get_adjusted_distance(l1, l2)
DistCall(l1, l2) == [DistIdle EXCEPT !.l1 = l1, !.l2 = l2, !.pc = "align"]

\* lines 20-47: align, take alignments[0], clear the counters and flags
\* (the flags start as '', which is false)
DistAligned(s, al) ==
    [s EXCEPT !.a = al, !.k = 0, !.d = 0, !.source_umlaut = FALSE,
              !.target_umlaut = FALSE, !.pc = "walk"]

\* resolveSource with the reset of the flag forgotten
resolveSourceNoReset(s, source_sym, target_sym) ==
    IF source_sym = GAP_ELEMENT /\ target_sym = combining_e
    THEN [s EXCEPT !.d = @ + 1]
    ELSE [s EXCEPT !.d = @ + 2]

\* what a column with an unequal pair does to a pending source flag
resolveSource(s, source_sym, target_sym) ==
    IF source_sym = GAP_ELEMENT /\ target_sym = combining_e
    THEN [s EXCEPT !.source_umlaut = FALSE, !.d = @ + 1]
    ELSE [s EXCEPT !.source_umlaut = FALSE, !.d = @ + 2]

\* resolveTarget with the test of the source branch copied unchanged
resolveTargetCopied(s, source_sym, target_sym) ==
    IF source_sym = GAP_ELEMENT /\ target_sym = combining_e
    THEN [s EXCEPT !.target_umlaut = FALSE, !.d = @ + 1]
    ELSE [s EXCEPT !.target_umlaut = FALSE, !.d = @ + 2]

\* what a column with an unequal pair does to a pending target flag
resolveTarget(s, source_sym, target_sym) ==
    IF target_sym = GAP_ELEMENT /\ source_sym = combining_e
    THEN [s EXCEPT !.target_umlaut = FALSE, !.d = @ + 1]
    ELSE [s EXCEPT !.target_umlaut = FALSE, !.d = @ + 2]

\* one iteration of the loop over zip(a.first, a.second), lines 49-82
DistColumn(s) ==
    LET source_sym == At(s.a.first, s.k)
        target_sym == At(s.a.second, s.k)
        t == [s EXCEPT !.k = @ + 1]
    IN  IF source_sym = target_sym
        THEN IF s.source_umlaut
             THEN [t EXCEPT !.source_umlaut = FALSE, !.d = @ + 1]
             ELSE IF s.target_umlaut
             THEN [t EXCEPT !.target_umlaut = FALSE, !.d = @ + 1]
             ELSE t
        ELSE IF s.source_umlaut
             THEN resolveSource(t, source_sym, target_sym)
             ELSE IF s.target_umlaut
             THEN resolveTarget(t, source_sym, target_sym)
             ELSE IF source_sym \in DOMAIN umlauts /\ umlauts[source_sym] = target_sym
             THEN [t EXCEPT !.source_umlaut = TRUE]
             ELSE IF target_sym \in DOMAIN umlauts /\ umlauts[target_sym] = source_sym
             THEN [t EXCEPT !.target_umlaut = TRUE]
             ELSE [t EXCEPT !.d = @ + 1]

\* the adjusted length of the commented-out return value
referenceLengthReduced(s) ==
    Len(s.a.first) - Max(count(s.l1, combining_e), count(s.l2, combining_e))

\* the reference length returned, line 86
referenceLength(s) == Len(s.l2)

\* DistReturned without the charge for a flag still pending
DistReturnedNoCharge(s) ==
    [s EXCEPT !.ret = <<s.d, referenceLength(s)>>, !.pc = "done"]

\* lines 83-86: a flag still pending is one full error; return d, len(l2)
DistReturned(s) ==
    LET d == IF s.source_umlaut \/ s.target_umlaut THEN s.d + 1 ELSE s.d
    IN  [s EXCEPT !.d = d, !.ret = <<d, referenceLength(s)>>, !.pc = "done"]

\* get_adjusted_distance from the aligned state to its return
RECURSIVE DistRun(_)
DistRun(s) ==
    IF s.pc = "done" THEN s
    ELSE IF s.k < Len(s.a.first) THEN DistRun(DistColumn(s))
    ELSE DistRun(DistReturned(s))

\* get_adjusted_distance(l1, l2) with alignments[0] = al
get_adjusted_distance(l1, l2, al) == DistRun(DistAligned(DistCall(l1, l2), al)).ret

InitDist ==
    /\ \E p \in DistInputs : dist = DistCall(p[1], p[2])
    /\ pr = PRIdle
    /\ mn = MainIdle

DistAlign ==
    /\ dist.pc = "align"
    /\ \E al \in align(dist.l1, dist.l2) : dist' = DistAligned(dist, al)
    /\ UNCHANGED <<pr, mn>>

DistLoop ==
    /\ dist.pc = "walk"
    /\ dist.k < Len(dist.a.first)
    /\ dist' = DistColumn(dist)
    /\ UNCHANGED <<pr, mn>>

DistReturn ==
    /\ dist.pc = "walk"
    /\ dist.k = Len(dist.a.first)
    /\ dist' = DistReturned(dist)
    /\ UNCHANGED <<pr, mn>>

NextDist == DistAlign \/ DistLoop \/ DistReturn

SpecDist == InitDist /\ [][NextDist]_vars

\* --------------------------------------------------- get_precision_recall

PRAlphabet == {"a", "b"}

hellp == <<"h", "e", "l", "l", "p">>

\* the triples (ocr, cor, gt) get_precision_recall is called with
PRInputs ==
    (Lines(PRAlphabet, MaxLenPR) \X Lines(PRAlphabet, MaxLenPR)
        \X Lines(PRAlphabet, MaxLenPR))
    \cup {<<helllo, hello, hello>>, <<hello, hellp, hello>>}

\* entry of get_precision_recall(ocr, cor, gt)
PRCall(ocr, cor, gt) ==
    [PRIdle EXCEPT !.ocr = ocr, !.cor = cor, !.gt = gt, !.pc = "align"]

\* lines 92-125: a and b are alignments[0] of ocr and of cor against gt
PRAligned(s, al_a, al_b) ==
    [s EXCEPT !.a = al_a, !.b = al_b, !.i = 0, !.j = 0, !.FP = 0, !.TP = 0,
              !.FN = 0, !.TN = 0, !.pc = "loop"]

\* len(a) of a sequence alignment
AlLen(al) == Len(al.first)

\* x or '': a cell holds the characters of the symbol, none for a gap
orEmpty(x) == IF x = GAP_ELEMENT THEN <<>> ELSE <<x>>

\* lines 128-130 and 132-134: skip the positions with a gap on the gt side,
\* advancing first and then reading a.first[i]; err is the IndexError of
\* reading one past the end
RECURSIVE leadingGaps(_, _, _)
leadingGaps(al, i, sym) ==
    IF i < AlLen(al) /\ At(al.second, i) = GAP_ELEMENT
    THEN IF i + 1 >= AlLen(al)
         THEN [i |-> i + 1, sym |-> sym, err |-> TRUE]
         ELSE leadingGaps(al, i + 1, sym \o orEmpty(At(al.first, i + 1)))
    ELSE [i |-> i, sym |-> sym, err |-> FALSE]

\* trailingGaps that skips the gap positions without filling the cell
RECURSIVE trailingGapsSkipped(_, _, _)
trailingGapsSkipped(al, i, sym) ==
    IF i < AlLen(al) /\ At(al.second, i) = GAP_ELEMENT
    THEN trailingGapsSkipped(al, i + 1, sym)
    ELSE [i |-> i, sym |-> sym]

\* trailingGaps with the loop left out
trailingGapsNone(al, i, sym) == [i |-> i, sym |-> sym]

\* lines 143-145 and 146-148: fill the cell from the gap positions that
\* follow the reference position
RECURSIVE trailingGaps(_, _, _)
trailingGaps(al, i, sym) ==
    IF i < AlLen(al) /\ At(al.second, i) = GAP_ELEMENT
    THEN trailingGaps(al, i + 1, sym \o <<At(al.first, i)>>)
    ELSE [i |-> i, sym |-> sym]

\* lines 127-139: start both cells, skip leading gaps, read gt_sym and check
\* the loop invariants
PRLead(s) ==
    LET la == leadingGaps(s.a, s.i, orEmpty(At(s.a.first, s.i)))
        lb == leadingGaps(s.b, s.j, orEmpty(At(s.b.first, s.j)))
    IN  IF la.err
        THEN [s EXCEPT !.i = la.i, !.ocr_sym = la.sym, !.pc = "IndexError"]
        ELSE IF lb.err
        THEN [s EXCEPT !.i = la.i, !.ocr_sym = la.sym, !.j = lb.i,
                       !.cor_sym = lb.sym, !.pc = "IndexError"]
        ELSE [s EXCEPT !.i = la.i, !.ocr_sym = la.sym, !.j = lb.i,
                       !.cor_sym = lb.sym, !.gt_sym = At(s.a.second, la.i),
                       !.pc = IF /\ At(s.a.second, la.i) = At(s.b.second, lb.i)
                                 /\ At(s.a.second, la.i) # GAP_ELEMENT
                                 /\ At(s.b.second, lb.i) # GAP_ELEMENT
                              THEN "advance" ELSE "AssertionError"]

\* counted with the labels of the two corrections exchanged
countedSwapped(s) ==
    IF s.ocr_sym = <<s.gt_sym>>
    THEN IF s.cor_sym = <<s.gt_sym>>
         THEN [s EXCEPT !.TN = @ + 1]
         ELSE [s EXCEPT !.TP = @ + 1]
    ELSE IF s.cor_sym = <<s.gt_sym>>
         THEN [s EXCEPT !.FP = @ + 1]
         ELSE [s EXCEPT !.FN = @ + 1]

\* counted that leaves out an error the correction changed without fixing
countedUnchangedOnly(s) ==
    IF s.ocr_sym = <<s.gt_sym>>
    THEN IF s.cor_sym = <<s.gt_sym>>
         THEN [s EXCEPT !.TN = @ + 1]
         ELSE [s EXCEPT !.FP = @ + 1]
    ELSE IF s.cor_sym = <<s.gt_sym>>
         THEN [s EXCEPT !.TP = @ + 1]
         ELSE IF s.cor_sym = s.ocr_sym
         THEN [s EXCEPT !.FN = @ + 1]
         ELSE s

\* lines 153-162: compare the two cells with the gt symbol
counted(s) ==
    IF s.ocr_sym = <<s.gt_sym>>
    THEN IF s.cor_sym = <<s.gt_sym>>
         THEN [s EXCEPT !.TN = @ + 1]
         ELSE [s EXCEPT !.FP = @ + 1]
    ELSE IF s.cor_sym = <<s.gt_sym>>
         THEN [s EXCEPT !.TP = @ + 1]
         ELSE [s EXCEPT !.FN = @ + 1]

\* lines 140-162: step over the reference position, fill both cells from
\* the gaps that follow, count
PRAdvance(s) ==
    LET ta == trailingGaps(s.a, s.i + 1, s.ocr_sym)
        tb == trailingGaps(s.b, s.j + 1, s.cor_sym)
    IN  [counted([s EXCEPT !.i = ta.i, !.ocr_sym = ta.sym, !.j = tb.i,
                           !.cor_sym = tb.sym])
         EXCEPT !.pc = "loop"]

\* line 126
PRLoopCondition(s) == s.i < AlLen(s.a) /\ s.j < AlLen(s.b)

\* lines 164-166
PRReturned(s) ==
    IF s.i = AlLen(s.a) /\ s.j = AlLen(s.b)
    THEN [s EXCEPT !.ret = <<s.TP, s.TN, s.FP, s.FN>>, !.pc = "done"]
    ELSE [s EXCEPT !.pc = "AssertionError"]

PRTerminal == {"done", "IndexError", "AssertionError"}

\* get_precision_recall from the aligned state to its return or exception
RECURSIVE PRRun(_)
PRRun(s) ==
    IF s.pc \in PRTerminal THEN s
    ELSE IF s.pc = "advance" THEN PRRun(PRAdvance(s))
    ELSE IF PRLoopCondition(s) THEN PRRun(PRLead(s))
    ELSE PRRun(PRReturned(s))

\* get_precision_recall(ocr, cor, gt) with the two alignments[0]
get_precision_recall(ocr, cor, gt, al_a, al_b) ==
    PRRun(PRAligned(PRCall(ocr, cor, gt), al_a, al_b))

InitPR ==
    /\ \E t \in PRInputs : pr = PRCall(t[1], t[2], t[3])
    /\ dist = DistIdle
    /\ mn = MainIdle

PRAlign ==
    /\ pr.pc = "align"
    /\ \E al_a \in align(pr.ocr, pr.gt), al_b \in align(pr.cor, pr.gt) :
          pr' = PRAligned(pr, al_a, al_b)
    /\ UNCHANGED <<dist, mn>>

PRLoopLead ==
    /\ pr.pc = "loop"
    /\ PRLoopCondition(pr)
    /\ pr' = PRLead(pr)
    /\ UNCHANGED <<dist, mn>>

PRLoopAdvance ==
    /\ pr.pc = "advance"
    /\ pr' = PRAdvance(pr)
    /\ UNCHANGED <<dist, mn>>

PRReturn ==
    /\ pr.pc = "loop"
    /\ ~PRLoopCondition(pr)
    /\ pr' = PRReturned(pr)
    /\ UNCHANGED <<dist, mn>>

NextPR == PRAlign \/ PRLoopLead \/ PRLoopAdvance \/ PRReturn

SpecPR == InitPR /\ [][NextPR]_vars

\* -------------------------------------------------------------------- main

Whitespace == {" "}

RECURSIVE lstrip(_)
lstrip(l) ==
    IF l # <<>> /\ Head(l) \in Whitespace THEN lstrip(Tail(l)) ELSE l

RECURSIVE rstrip(_)
rstrip(l) ==
    IF l # <<>> /\ l[Len(l)] \in Whitespace
    THEN rstrip(SubSeq(l, 1, Len(l) - 1))
    ELSE l

\* str.strip()
strip(l) == rstrip(lstrip(l))

MainAlphabet == {"a", "b", " "}

\* the contents of the files of one key
RawLines == Lines(MainAlphabet, MaxRawLen)

Metrics == {"Levenshtein", "combining-e-umlauts", "precision-recall"}

\* lines 183-213: the arguments are parsed, the totals cleared
MainStarted(metric, silent) ==
    [MainIdle EXCEPT !.metric = metric, !.silent = silent, !.pc = "loop"]

\* lines 247-249: 1 if TP+FP==0 else TP/(TP+FP), 1 if TP+FN==0 else TP/(TP+FN)
guardedOne(num, den) == IF den = 0 THEN Ratio(1, 1) ELSE Ratio(num, den)

\* line 270: 0 if FP+TN==0 else FP/(FP+TN)
guardedZero(num, den) == IF den = 0 THEN Ratio(0, 1) ELSE Ratio(num, den)

\* lines 245-254: the line's precision and recall are printed, the counts
\* added to the totals
countsAdded(s, r) ==
    [s EXCEPT !.TP = @ + r[1], !.TN = @ + r[2], !.FP = @ + r[3], !.FN = @ + r[4],
              !.printed = IF s.silent THEN @
                          ELSE <<guardedOne(r[1], r[1] + r[3]),
                                 guardedOne(r[1], r[1] + r[4])>>]

\* lines 255-263: the line's two error rates are printed, the edits and
\* lengths added to the totals
editsAdded(s, eo, lo, ec, lc) ==
    LET t == [s EXCEPT !.edits_ocr_line = eo, !.len_ocr_line = lo,
                       !.edits_cor_line = ec, !.len_cor_line = lc]
    IN  IF ~s.silent /\ (lo = 0 \/ lc = 0)
        THEN [t EXCEPT !.pc = "ZeroDivisionError"]
        ELSE [t EXCEPT !.edits_ocr = @ + eo, !.edits_cor = @ + ec,
                       !.len_ocr = @ + lo, !.len_cor = @ + lc,
                       !.printed = IF s.silent THEN @
                                   ELSE <<Ratio(eo, lo), Ratio(ec, lc)>>]

\* lines 215-263: one iteration of the loop over the keys, with the files'
\* contents and the alignments[0] of ocr and of cor against gt
lineProcessed(s, ocr_raw, cor_raw, gt_raw, al_o, al_c) ==
    LET gt_line  == strip(gt_raw)
        ocr_line == strip(ocr_raw)
        cor_line == strip(cor_raw)
        t == [s EXCEPT !.lines = @ + 1, !.gt_line = gt_line,
                       !.ocr_line = ocr_line, !.cor_line = cor_line]
    IN  IF s.metric = "Levenshtein"
        THEN editsAdded(t, editdistance(ocr_line, gt_line), Len(gt_line),
                           editdistance(cor_line, gt_line), Len(gt_line))
        ELSE IF s.metric = "combining-e-umlauts"
        THEN LET ro == get_adjusted_distance(ocr_line, gt_line, al_o)
                 rc == get_adjusted_distance(cor_line, gt_line, al_c)
             IN  editsAdded(t, ro[1], ro[2], rc[1], rc[2])
        ELSE LET r == get_precision_recall(ocr_line, cor_line, gt_line, al_o, al_c)
             IN  IF r.pc = "done" THEN countsAdded(t, r.ret)
                 ELSE [t EXCEPT !.pc = r.pc]

\* line 271: auc = 0.5*tpr*fpr + tpr*(1-fpr) + 0.5*(1-tpr)*(1-fpr)
auc(tpr, fpr) ==
    Ratio(tpr.num * fpr.num + 2 * tpr.num * (fpr.den - fpr.num)
            + (tpr.den - tpr.num) * (fpr.den - fpr.num),
          2 * tpr.den * fpr.den)

\* lines 265-279: the aggregate ratios are computed and printed
aggregated(s) ==
    IF s.metric = "precision-recall"
    THEN LET precision == guardedOne(s.TP, s.TP + s.FP)
             recall    == guardedOne(s.TP, s.TP + s.FN)
             fpr       == guardedZero(s.FP, s.FP + s.TN)
         IN  IF 2 * s.TP + s.FP + s.FN = 0
             THEN [s EXCEPT !.pc = "ZeroDivisionError"]
             ELSE [s EXCEPT !.pc = "done",
                            !.printed = <<precision, recall,
                                          Ratio(2 * s.TP, 2 * s.TP + s.FP + s.FN),
                                          recall, fpr, auc(recall, fpr)>>]
    ELSE IF s.len_ocr = 0 \/ s.len_cor = 0
         THEN [s EXCEPT !.pc = "ZeroDivisionError"]
         ELSE [s EXCEPT !.pc = "done",
                        !.printed = <<Ratio(s.edits_ocr, s.len_ocr),
                                      Ratio(s.edits_cor, s.len_cor)>>]

InitMain ==
    /\ \E metric \in Metrics, silent \in BOOLEAN : mn = MainStarted(metric, silent)
    /\ dist = DistIdle
    /\ pr = PRIdle

MainLoop ==
    /\ mn.pc = "loop"
    /\ mn.lines < MaxLines
    /\ \E ocr_raw \in RawLines, cor_raw \in RawLines, gt_raw \in RawLines :
          \E al_o \in align(strip(ocr_raw), strip(gt_raw)),
             al_c \in align(strip(cor_raw), strip(gt_raw)) :
             mn' = lineProcessed(mn, ocr_raw, cor_raw, gt_raw, al_o, al_c)
    /\ UNCHANGED <<dist, pr>>

MainAggregate ==
    /\ mn.pc = "loop"
    /\ mn' = aggregated(mn)
    /\ UNCHANGED <<dist, pr>>

NextMain == MainLoop \/ MainAggregate

SpecMain == InitMain /\ [][NextMain]_vars

\* ------------------------------------------------------------------ claims
\* --------------------------------------- claims of get_adjusted_distance

Columns(al) == 1..Len(al.first)

\* the columns of an alignment whose two sides differ
NonMatching(al) == {c \in Columns(al) : al.first[c] # al.second[c]}

\* column c pairs an umlaut with its base letter
UmlautRelated(al, c) ==
    \/ al.first[c] \in DOMAIN umlauts /\ umlauts[al.first[c]] = al.second[c]
    \/ al.second[c] \in DOMAIN umlauts /\ umlauts[al.second[c]] = al.first[c]

\* column c defers its judgment: it pairs an umlaut with its base letter and
\* the column before it did not defer
RECURSIVE Defers(_, _)
Defers(al, c) ==
    /\ c >= 1
    /\ UmlautRelated(al, c)
    /\ ~Defers(al, c - 1)

\* the umlaut pairs resolved against a combining e: the column after the
\* deferring one holds the combining e, on the side of the base letter,
\* opposite a gap
ResolvedPairs(al) ==
    {c \in Columns(al) :
        /\ Defers(al, c)
        /\ c + 1 \in Columns(al)
        /\ \/ /\ al.first[c] \in DOMAIN umlauts
              /\ al.first[c + 1] = GAP_ELEMENT
              /\ al.second[c + 1] = combining_e
           \/ /\ al.second[c] \in DOMAIN umlauts
              /\ al.second[c + 1] = GAP_ELEMENT
              /\ al.first[c + 1] = combining_e}

DistPending == dist.source_umlaut \/ dist.target_umlaut

MatchPreferred ==
    {<<"diag", "gapSecond", "gapFirst">>, <<"diag", "gapFirst", "gapSecond">>}

\* backtrace preference orders that take a gap before a match or mismatch
GapPreferred ==
    {<<"gapSecond", "gapFirst", "diag">>, <<"gapFirst", "gapSecond", "diag">>}

MuessenCase ==
    /\ dist.pc = "done"
    /\ dist.l1 = muessen_combining
    /\ dist.l2 = muessen

C9_FlagsOneStepLookback ==
    [][/\ ~(dist.source_umlaut /\ dist.target_umlaut)
       /\ ~(dist'.source_umlaut /\ dist'.target_umlaut)
       /\ (dist.pc = "walk" /\ dist'.pc = "walk") =>
            /\ DistPending => ~dist'.source_umlaut /\ ~dist'.target_umlaut
            /\ (dist'.source_umlaut \/ dist'.target_umlaut) =>
                  /\ ~DistPending
                  /\ dist'.k = dist.k + 1
                  /\ UmlautRelated(dist.a, dist'.k)
       /\ dist.pc = "align" => ~dist'.source_umlaut /\ ~dist'.target_umlaut]_vars

\* a flag set by the first column was consumed by the second, an unequal pair
C9_Witness ==
    /\ dist.pc = "walk"
    /\ dist.k = 2
    /\ UmlautRelated(dist.a, 1)
    /\ UmlautRelated(dist.a, 2)
    /\ ~DistPending
    /\ dist.d = 2

\* C10: 0 <= editCount <= Levenshtein distance; editCount is the number of
\* non-matching columns of the alignment, which is the Levenshtein distance,
\* minus the number of umlaut pairs resolved against a combining e; so it is
\* the Levenshtein distance when neither line holds a combining e
C10_EditCountVsLevenshtein ==
    dist.pc = "done" =>
        LET lev == editdistance(dist.l1, dist.l2)
            d   == dist.ret[1]
        IN  /\ 0 <= d
            /\ d <= lev
            /\ Cardinality(NonMatching(dist.a)) = lev
            /\ d = lev - Cardinality(ResolvedPairs(dist.a))
            /\ (count(dist.l1, combining_e) = 0 /\ count(dist.l2, combining_e) = 0)
                  => d = lev

\* an umlaut pair was resolved and another deferred mismatch was charged
C10_Witness ==
    /\ dist.pc = "done"
    /\ Cardinality(ResolvedPairs(dist.a)) = 1
    /\ Cardinality(NonMatching(dist.a)) = 3
    /\ dist.ret[1] = 2

\* ---------------------------------------- claims of get_precision_recall

PRSum(s) == s.TP + s.TN + s.FP + s.FN

\* the gt symbols among the first i positions of an alignment against gt
RefCount(al, i) == Cardinality({c \in 1..i : al.second[c] # GAP_ELEMENT})

\* the position (1-based) of the k-th gt symbol in an alignment against gt
RefColumn(al, k) ==
    CHOOSE c \in Columns(al) : al.second[c] # GAP_ELEMENT /\ RefCount(al, c) = k

IsSymbol(x) == x # GAP_ELEMENT

\* the cell of the k-th gt symbol: the symbol aligned to it, the symbols of
\* the gap-on-gt positions that follow it and, for the first gt symbol, of
\* those before it
CellOf(al, k) ==
    LET lo == IF k = 1 THEN 1 ELSE RefColumn(al, k)
        hi == IF k = RefCount(al, AlLen(al)) THEN AlLen(al)
              ELSE RefColumn(al, k + 1) - 1
    IN  SelectSeq(SubSeq(al.first, lo, hi), IsSymbol)

\* the counters after the outcome the table gives for a gt symbol g
Tabled(s, ocr_cell, cor_cell, g) ==
    <<s.TP + (IF ocr_cell # <<g>> /\ cor_cell = <<g>> THEN 1 ELSE 0),
      s.TN + (IF ocr_cell = <<g>> /\ cor_cell = <<g>> THEN 1 ELSE 0),
      s.FP + (IF ocr_cell = <<g>> /\ cor_cell # <<g>> THEN 1 ELSE 0),
      s.FN + (IF ocr_cell # <<g>> /\ cor_cell # <<g>> THEN 1 ELSE 0)>>

\* C1: each iteration of the cursor loop consumes exactly one gt symbol and
\* increments exactly one of the four counters, so for len(gt) > 0 the
\* counts returned sum to len(gt)
C1_CountsSumToGtLength ==
    [][/\ pr.pc = "advance" =>
            /\ PRSum(pr') = PRSum(pr) + 1
            /\ \A f \in {"TP", "TN", "FP", "FN"} : pr'[f] \in {pr[f], pr[f] + 1}
            /\ RefCount(pr.a, pr'.i) = RefCount(pr.a, pr.i) + 1
            /\ RefCount(pr.b, pr'.j) = RefCount(pr.b, pr.j) + 1
       /\ (pr.pc = "loop" /\ pr'.pc = "advance") =>
            /\ <<pr'.TP, pr'.TN, pr'.FP, pr'.FN>> = <<pr.TP, pr.TN, pr.FP, pr.FN>>
            /\ RefCount(pr.a, pr'.i) = RefCount(pr.a, pr.i)
            /\ RefCount(pr.b, pr'.j) = RefCount(pr.b, pr.j)
       /\ (pr'.pc = "done" /\ Len(pr.gt) > 0) =>
            /\ PRSum(pr') = Len(pr.gt)
            /\ pr'.ret = <<pr'.TP, pr'.TN, pr'.FP, pr'.FN>>]_vars

C1_Witness ==
    /\ pr.pc = "done"
    /\ Len(pr.gt) = 3
    /\ AlLen(pr.a) > 3
    /\ pr.ret[1] + pr.ret[2] + pr.ret[3] + pr.ret[4] = 3
    /\ pr.ret[1] > 0
    /\ pr.ret[4] > 0

Removed(l, p) == SubSeq(l, 1, p - 1) \o SubSeq(l, p + 1, Len(l))

\* ocr is gt with a single extra character inserted, cor equals gt
InsertionCase ==
    /\ pr.pc # "idle"
    /\ pr.cor = pr.gt
    /\ Len(pr.ocr) = Len(pr.gt) + 1
    /\ \E p \in 1..Len(pr.ocr) : Removed(pr.ocr, p) = pr.gt

EmptyGtLine ==
    /\ mn.lines > 0
    /\ mn.gt_line = <<>>
    /\ mn.ocr_line # <<>>
    /\ mn.cor_line # <<>>

\* C6: for a line with an empty gt line and non-empty ocr and cor lines the
\* adjusted distance returns reference length 0, and the error rate of the
\* line and of the aggregate (summed reference length 0) is reported as
\* undefined: no division by zero is raised
C6_CerDivisionGuarded ==
    (mn.metric = "combining-e-umlauts" /\ EmptyGtLine) =>
        /\ mn.len_ocr_line = 0
        /\ mn.len_cor_line = 0
        /\ mn.pc # "ZeroDivisionError"

\* C7: for the totals of any lines, TP = FP = FN = 0 included, the aggregate
\* ratios are computed without failing: precision and recall are 1 and the
\* false-positive rate 0 on a zero denominator, F1 = 2*TP/(2*TP+FP+FN).
\* Stated for totals that count at least one gt character.
C7_AggregateRatiosNeverFail ==
    (mn.metric = "precision-recall" /\ mn.TN > 0) =>
        /\ mn.pc # "ZeroDivisionError"
        /\ mn.pc = "done" =>
              /\ mn.printed[1] = IF mn.TP + mn.FP = 0 THEN Ratio(1, 1)
                                 ELSE Ratio(mn.TP, mn.TP + mn.FP)
              /\ mn.printed[2] = IF mn.TP + mn.FN = 0 THEN Ratio(1, 1)
                                 ELSE Ratio(mn.TP, mn.TP + mn.FN)
              /\ mn.printed[3] = Ratio(2 * mn.TP, 2 * mn.TP + mn.FP + mn.FN)
              /\ mn.printed[5] = IF mn.FP + mn.TN = 0 THEN Ratio(0, 1)
                                 ELSE Ratio(mn.FP, mn.FP + mn.TN)

====
